---- MODULE Spec2Model ----
(***************************************************************************)
(* Model of recipes/VoxCeleb/SpeakerRec/speaker_verification_plda.py:      *)
(* the cached embedding loops, the Ndx preparation, PLDA training and      *)
(* scoring, and compute_EER over the ground-truth trial file.              *)
(*                                                                         *)
(* Text is a sequence of one-character strings, so that split / strip are  *)
(* computed as Python computes them.  Embedding vectors and scores are     *)
(* symbolic values (<<"xv", id>>, <<"llr", e, t>>): the numeric content of *)
(* the external extractor and of the PLDA scorer is not in this file.      *)
(* Python's 0-based positions are written 1-based.                         *)
(***************************************************************************)
EXTENDS Integers, Sequences, FiniteSets, TLC

VARIABLES
    pc,               \* position of the program: main's stage or compute_EER's
    err,              \* the exception that ended the run, "none" while running
    fs,               \* save_folder: file name -> pickled object or NoFile
    loaders,          \* split -> the mini-batches the data loader still holds
    modelset,         \* accumulator of the running embedding loop
    segset,           \* accumulator of the running embedding loop
    embeddings,       \* accumulator of the running embedding loop (numpy array)
    embeddings_stat,  \* main: train stat object
    plda,             \* params["compute_plda"] after .plda(...)
    enrol_obj,        \* main: enrol stat object
    test_obj,         \* main: test stat object
    ndx_obj,          \* main: Ndx object
    scores_plda,      \* main: result of fast_PLDA_scoring
    gt_file,          \* meta/veri_test.txt: sequence of lines
    ln,               \* compute_EER: number of lines already read
    lab,              \* compute_EER: label of the line being processed
    enrol_id,         \* compute_EER: enrol id of the line being processed
    test_id,          \* compute_EER: test id of the line being processed
    ids,              \* compute_EER: ids list
    labels,           \* compute_EER: labels list
    positive_scores,  \* compute_EER
    negative_scores,  \* compute_EER
    eer,              \* main: eer returned by compute_EER
    yielded,          \* history: split -> ids the loader yielded, in order
    missed,           \* history: files found missing at their cache check
    loaded,           \* history: files unpickled
    writes,           \* history: file -> number of saves
    calls,            \* history: split -> number of compute_embeddings calls
    stages            \* history: the stages completed, in order

vars == <<pc, err, fs, loaders, modelset, segset, embeddings, embeddings_stat,
          plda, enrol_obj, test_obj, ndx_obj, scores_plda, gt_file, ln, lab,
          enrol_id, test_id, ids, labels, positive_scores, negative_scores,
          eer, yielded, missed, loaded, writes, calls, stages>>

\* a name bound to no object, and the content of a path that holds no file
None == [none |-> TRUE]
NoFile == [nofile |-> TRUE]

----------------------------------------------------------------------------
(* Bounds *)

NumTrain == 3
NumUtt == 5
MaxBatchSize == 3
EmbDim == 2
MaxLines == 2
MaxSet == 2
MaxRefLen == 5

----------------------------------------------------------------------------
(* Python text operations *)

Whitespace == {" ", "\n", "\t"}

RECURSIVE LStrip(_)
LStrip(s) ==
    IF s # <<>> /\ Head(s) \in Whitespace THEN LStrip(Tail(s)) ELSE s

RECURSIVE RStrip(_)
RStrip(s) ==
    IF s # <<>> /\ s[Len(s)] \in Whitespace
    THEN RStrip(SubSeq(s, 1, Len(s) - 1))
    ELSE s

Strip(s) == LStrip(RStrip(s))

\* str.split(sep) for a one-character separator: every occurrence separates
RECURSIVE Split(_, _)
Split(s, sep) ==
    IF \A k \in 1..Len(s) : s[k] # sep
    THEN <<s>>
    ELSE LET p == CHOOSE k \in 1..Len(s) :
                      s[k] = sep /\ \A m \in 1..(k - 1) : s[m] # sep
         IN  <<SubSeq(s, 1, p - 1)>> \o Split(SubSeq(s, p + 1, Len(s)), sep)

Digit(c) ==
    CASE c = "0" -> 0 [] c = "1" -> 1 [] c = "2" -> 2 [] c = "3" -> 3
      [] c = "4" -> 4 [] c = "5" -> 5 [] c = "6" -> 6 [] c = "7" -> 7
      [] c = "8" -> 8 [] c = "9" -> 9

\* int(s) for a string of decimal digits
RECURSIVE PyInt(_)
PyInt(s) ==
    IF Len(s) = 1 THEN Digit(s[1])
    ELSE 10 * PyInt(SubSeq(s, 1, Len(s) - 1)) + Digit(s[Len(s)])

\* line.split(" ")[k].rstrip().split(".")[0].strip(), k 0-based in the source
FieldLastDot(line, k) ==
    LET parts == Split(RStrip(Split(line, " ")[k + 1]), ".")
    IN  Strip(parts[Len(parts)])

Field(line, k) == Strip(Split(RStrip(Split(line, " ")[k + 1]), ".")[1])

\* numpy.where(arr == x)[0]: the positions of x, ascending
Where(arr, x) == {k \in 1..Len(arr) : arr[k] = x}

FirstMatchAny(arr, x) ==
    IF Where(arr, x) = {} THEN Len(arr)
    ELSE CHOOSE k \in Where(arr, x) : \A m \in Where(arr, x) : k <= m

LastMatch(arr, x) ==
    IF Where(arr, x) = {} THEN 0
    ELSE CHOOSE k \in Where(arr, x) : \A m \in Where(arr, x) : k >= m

\* numpy.where(arr == x)[0][0]; 0 stands for the IndexError of an empty result
FirstMatch(arr, x) ==
    IF Where(arr, x) = {} THEN 0
    ELSE CHOOSE k \in Where(arr, x) : \A m \in Where(arr, x) : k <= m

----------------------------------------------------------------------------
(* compute_EER *)

\* speechbrain.utils.metric_stats.EER: the equal error rate of two score lists,
\* undefined (an error) when either list is empty
EER(positive, negative) ==
    IF positive = <<>> \/ negative = <<>>
    THEN [error |-> "InsufficientTrialsError", eer |-> None]
    ELSE [error |-> "none",
          eer |-> [positive |-> positive, negative |-> negative]]

FinalEERSwallowed(positive, negative) ==
    IF EER(positive, negative).error = "none"
    THEN EER(positive, negative)
    ELSE [error |-> "none",
          eer |-> [positive |-> positive, negative |-> negative]]

\* eer, th = EER(torch.tensor(positive_scores), torch.tensor(negative_scores))
FinalEER(positive, negative) == EER(positive, negative)

\* if lab == 1: positive_scores.append(s)  else: negative_scores.append(s)
IsPositive(l) == l = 1

\* the line the loop reads next
NextLine == gt_file[ln + 1]

\* ids.append(enrol_id + "<>" + test_id)
PairId(e, t) == e \o <<"<", ">">> \o t

EERStart ==
    /\ pc = "eer_start"
    /\ ids' = <<>>
    /\ labels' = <<>>
    /\ positive_scores' = <<>>
    /\ negative_scores' = <<>>
    /\ ln' = 0
    /\ pc' = "eer_loop"
    /\ UNCHANGED <<err, fs, loaders, modelset, segset, embeddings,
                   embeddings_stat, plda, enrol_obj, test_obj, ndx_obj,
                   scores_plda, gt_file, lab, enrol_id, test_id, eer, yielded,
                   missed, loaded, writes, calls, stages>>

\* one iteration of "for line in open(gt_file)" that reaches its end
EERLine ==
    /\ pc = "eer_loop"
    /\ ln < Len(gt_file)
    /\ LET l == PyInt(Field(NextLine, 0))
           e == Field(NextLine, 1)
           t == Field(NextLine, 2)
           i == FirstMatch(scores_plda.modelset, e)
           j == FirstMatch(scores_plda.segset, t)
       IN  /\ i # 0
           /\ j # 0
           /\ lab' = l
           /\ enrol_id' = e
           /\ test_id' = t
           /\ labels' = Append(labels, l)
           /\ ids' = Append(ids, PairId(e, t))
           /\ IF IsPositive(l)
              THEN /\ positive_scores' =
                          Append(positive_scores, scores_plda.scoremat[i][j])
                   /\ UNCHANGED negative_scores
              ELSE /\ negative_scores' =
                          Append(negative_scores, scores_plda.scoremat[i][j])
                   /\ UNCHANGED positive_scores
    /\ ln' = ln + 1
    /\ UNCHANGED <<pc, err, fs, loaders, modelset, segset, embeddings,
                   embeddings_stat, plda, enrol_obj, test_obj, ndx_obj,
                   scores_plda, gt_file, eer, yielded, missed, loaded, writes,
                   calls, stages>>

\* the iteration ends in the IndexError of numpy.where(...)[0][0]
EERLineError ==
    /\ pc = "eer_loop"
    /\ ln < Len(gt_file)
    /\ LET e == Field(NextLine, 1)
           t == Field(NextLine, 2)
       IN  /\ \/ FirstMatch(scores_plda.modelset, e) = 0
              \/ FirstMatch(scores_plda.segset, t) = 0
           /\ lab' = PyInt(Field(NextLine, 0))
           /\ enrol_id' = e
           /\ test_id' = t
    /\ ln' = ln + 1
    /\ pc' = "error"
    /\ err' = "IndexError"
    /\ UNCHANGED <<fs, loaders, modelset, segset, embeddings, embeddings_stat,
                   plda, enrol_obj, test_obj, ndx_obj, scores_plda, gt_file,
                   ids, labels, positive_scores, negative_scores, eer, yielded,
                   missed, loaded, writes, calls, stages>>

\* after the last line: the final EER computation, returned to main
EERFinal ==
    /\ pc = "eer_loop"
    /\ ln = Len(gt_file)
    /\ FinalEER(positive_scores, negative_scores).error = "none"
    /\ eer' = FinalEER(positive_scores, negative_scores).eer
    /\ pc' = "done"
    /\ stages' = Append(stages, "eer")
    /\ UNCHANGED <<err, fs, loaders, modelset, segset, embeddings,
                   embeddings_stat, plda, enrol_obj, test_obj, ndx_obj,
                   scores_plda, gt_file, ln, lab, enrol_id, test_id, ids,
                   labels, positive_scores, negative_scores, yielded, missed,
                   loaded, writes, calls>>

EERFinalError ==
    /\ pc = "eer_loop"
    /\ ln = Len(gt_file)
    /\ FinalEER(positive_scores, negative_scores).error # "none"
    /\ err' = FinalEER(positive_scores, negative_scores).error
    /\ pc' = "error"
    /\ UNCHANGED <<fs, loaders, modelset, segset, embeddings, embeddings_stat,
                   plda, enrol_obj, test_obj, ndx_obj, scores_plda, gt_file,
                   ln, lab, enrol_id, test_id, ids, labels, positive_scores,
                   negative_scores, eer, yielded, missed, loaded, writes,
                   calls, stages>>

NextEER ==
    \/ EERStart
    \/ EERLine
    \/ EERLineError
    \/ EERFinal
    \/ EERFinalError

----------------------------------------------------------------------------
(* compute_EER on its own: any score object, any trial file *)

\* "label enrollFileRef testFileRef\n"
Line(labtok, r1, r2) == labtok \o <<" ">> \o r1 \o <<" ">> \o r2 \o <<"\n">>

SeqsUpTo(S, n) == UNION {[1..k -> S] : k \in 0..n}

EERIds == {<<"a">>, <<"b">>}
LabelTokens == {<<"0">>, <<"1">>, <<"2">>}
EnrolRefs == {<<"a", ".", "w">>, <<"b", ".", "w">>, <<"c", ".", "w">>}
TestRefs == {<<"a", ".", "w">>, <<"c", ".", "w">>}
TrialLines ==
    {Line(l, r1, r2) : l \in LabelTokens, r1 \in EnrolRefs, r2 \in TestRefs}

\* a score object whose every cell holds a different score
ScoreObject(ms, ss) ==
    [modelset |-> ms, segset |-> ss,
     scoremat |-> [i \in 1..Len(ms) |-> [j \in 1..Len(ss) |-> <<"llr", i, j>>]]]

Idle ==
    /\ err = "none"
    /\ fs = [f \in {} |-> NoFile]
    /\ loaders = [s \in {} |-> {}]
    /\ modelset = <<>>
    /\ segset = <<>>
    /\ embeddings = None
    /\ embeddings_stat = None
    /\ plda = None
    /\ enrol_obj = None
    /\ test_obj = None
    /\ ndx_obj = None
    /\ ln = 0
    /\ lab = None
    /\ enrol_id = None
    /\ test_id = None
    /\ ids = <<>>
    /\ labels = <<>>
    /\ positive_scores = <<>>
    /\ negative_scores = <<>>
    /\ eer = None
    /\ yielded = [s \in {} |-> <<>>]
    /\ missed = {}
    /\ loaded = {}
    /\ writes = [f \in {} |-> 0]
    /\ calls = [s \in {} |-> 0]
    /\ stages = <<>>

InitEER ==
    /\ Idle
    /\ pc = "eer_start"
    /\ \E ms \in SeqsUpTo(EERIds, MaxSet) \ {<<>>} :
       \E ss \in SeqsUpTo(EERIds, MaxSet) \ {<<>>} :
           scores_plda = ScoreObject(ms, ss)
    /\ gt_file \in SeqsUpTo(TrialLines, MaxLines)

SpecEER == InitEER /\ [][NextEER]_vars

----------------------------------------------------------------------------
(* the id normalisation of compute_EER on every short file ref *)

RefAlphabet == {"a", "/", "."}
AllRefs == SeqsUpTo(RefAlphabet, MaxRefLen) \ {<<>>}
PathIds == << <<"a">>, <<"a", "/", "a">> >>

KnownRef == <<"a", ".", "w">>

InitNorm ==
    /\ Idle
    /\ pc = "eer_start"
    /\ scores_plda = ScoreObject(PathIds, PathIds)
    /\ \E l \in {<<"0">>, <<"1">>} : \E r \in AllRefs :
           \/ gt_file = <<Line(l, r, KnownRef), Line(<<"0">>, KnownRef, KnownRef)>>
           \/ gt_file = <<Line(l, KnownRef, r), Line(<<"0">>, KnownRef, KnownRef)>>

SpecNorm == InitNorm /\ [][NextEER]_vars

----------------------------------------------------------------------------
(* Data of the pipeline: utterances, loaders, arrays, stat objects *)

DigitChars == <<"1", "2", "3", "4", "5", "6", "7", "8", "9">>

\* utterance ids of a split, in dataset order
SplitIds(prefix, n) == [k \in 1..n |-> <<prefix, DigitChars[k]>>]

TrainIds == SplitIds("t", NumTrain)
EnrolIds == SplitIds("e", NumUtt)
TestIds == SplitIds("s", NumUtt)

Splits == {"train", "enrol", "test"}

\* a data loader of batch size b: consecutive chunks, the last one may be short
Batches(all, b) ==
    {SubSeq(all, k, IF k + b - 1 < Len(all) THEN k + b - 1 ELSE Len(all)) :
        k \in {m \in 1..Len(all) : (m - 1) % b = 0}}

\* ind2lab[spk_id] of a training utterance: the first two share a speaker
SpkLabel(id) == IF id \in {TrainIds[1], TrainIds[2]} THEN <<"A">> ELSE <<"B">>

\* xv_file, enrol_stat_file, test_stat_file
StatFile(split) ==
    CASE split = "train" -> "VoxCeleb1_train_embeddings_stat_obj.pkl"
      [] split = "enrol" -> "stat_enrol.pkl"
      [] split = "test" -> "stat_test.pkl"

NdxFile == "ndx.pkl"
Files == {StatFile(s) : s \in Splits} \cup {NdxFile}

\* numpy.empty(shape=[0, params["emb_dim"]])
EmptyArray == [shape |-> <<0, EmbDim>>, data |-> <<>>]

\* compute_embeddings(wavs, lens): one embedding per utterance, shape [N, 1, D]
compute_embeddings(batch) ==
    [shape |-> <<Len(batch), 1, EmbDim>>,
     data |-> [k \in 1..Len(batch) |-> <<"xv", batch[k]>>]]

\* tensor.squeeze(): every dimension of size 1 is removed
Squeeze(t) ==
    [shape |-> SelectSeq(t.shape, LAMBDA d : d # 1), data |-> t.data]

\* tensor.squeeze(1): the second dimension is removed when its size is 1
Squeeze1(t) ==
    [shape |-> IF t.shape[2] = 1
               THEN <<t.shape[1]>> \o SubSeq(t.shape, 3, Len(t.shape))
               ELSE t.shape,
     data |-> t.data]

\* numpy.concatenate((a, b), axis=0) raises ValueError unless this holds
CanConcatenate(a, b) ==
    /\ Len(a.shape) = Len(b.shape)
    /\ Len(a.shape) >= 1
    /\ Tail(a.shape) = Tail(b.shape)

ConcatenatePrepend(a, b) ==
    [shape |-> <<a.shape[1] + b.shape[1]>> \o Tail(a.shape),
     data |-> b.data \o a.data]

\* numpy.concatenate((a, b), axis=0)
Concatenate(a, b) ==
    [shape |-> <<a.shape[1] + b.shape[1]>> \o Tail(a.shape),
     data |-> a.data \o b.data]

\* StatObject_SB(modelset, segset, start=s, stop=s, stat0=b, stat1=embeddings)
StatObject(ms, ss, emb) ==
    [modelset |-> ms, segset |-> ss,
     start |-> [k \in 1..emb.shape[1] |-> None],
     stop |-> [k \in 1..emb.shape[1] |-> None],
     stat0 |-> [k \in 1..emb.shape[1] |-> <<1>>],
     stat1 |-> emb.data]

\* the stat object emb_computation_loop builds from ids delivered in one batch
LoopStat(all) == StatObject(all, all, Squeeze1(compute_embeddings(all)))

\* the stat object main builds from the training ids delivered in one batch
TrainStat(all) ==
    StatObject([k \in 1..Len(all) |-> SpkLabel(all[k])], all,
               Squeeze1(compute_embeddings(all)))

\* first-seen-order deduplication
RECURSIVE Dedup(_)
Dedup(s) ==
    IF s = <<>> THEN <<>>
    ELSE LET init == Dedup(SubSeq(s, 1, Len(s) - 1))
         IN  IF \E k \in 1..Len(init) : init[k] = s[Len(s)]
             THEN init
             ELSE Append(init, s[Len(s)])

\* Ndx(models=..., testsegs=...)
Ndx(models, testsegs) ==
    [models |-> Dedup(models), segments |-> Dedup(testsegs)]

HasLabel(stat, x) == \E k \in 1..Len(stat.modelset) : stat.modelset[k] = x

\* stat1 of the first record of stat labelled x
VectorOf(stat, x) == stat.stat1[FirstMatch(stat.modelset, x)]

\* what fast_PLDA_scoring needs of its arguments
Scorable(enrol, test, ndx) ==
    /\ \A k \in 1..Len(ndx.models) : HasLabel(enrol, ndx.models[k])
    /\ \A k \in 1..Len(ndx.segments) : HasLabel(test, ndx.segments[k])

\* fast_PLDA_scoring(enrol, test, ndx, mean, F, Sigma): scores in Ndx order
fast_PLDA_scoring(enrol, test, ndx, model) ==
    [modelset |-> ndx.models, segset |-> ndx.segments,
     scoremat |->
        [i \in 1..Len(ndx.models) |->
           [j \in 1..Len(ndx.segments) |->
              <<"llr", VectorOf(enrol, ndx.models[i]),
                VectorOf(test, ndx.segments[j])>>]]]

\* PLDA training needs two labels, one of them with two records
SufficientTrainingData(stat) ==
    /\ \E i, j \in 1..Len(stat.modelset) : stat.modelset[i] # stat.modelset[j]
    /\ \E i, j \in 1..Len(stat.modelset) :
           i # j /\ stat.modelset[i] = stat.modelset[j]

----------------------------------------------------------------------------
(* main: training embeddings *)

eerVars == <<ln, lab, enrol_id, test_id, ids, labels, positive_scores,
             negative_scores, eer>>

objVars == <<embeddings_stat, plda, enrol_obj, test_obj, ndx_obj, scores_plda>>

accVars == <<modelset, segset, embeddings>>

\* "if not os.path.exists(xv_file)" taken
TrainMiss ==
    /\ pc = "train_check"
    /\ fs[StatFile("train")] = NoFile
    /\ missed' = missed \cup {StatFile("train")}
    /\ pc' = "train_loop"
    /\ UNCHANGED <<err, fs, loaders, accVars, objVars, gt_file, eerVars,
                   yielded, loaded, writes, calls, stages>>

\* else: the saved stat object is unpickled
TrainLoad ==
    /\ pc = "train_check"
    /\ fs[StatFile("train")] # NoFile
    /\ embeddings_stat' = fs[StatFile("train")]
    /\ loaded' = loaded \cup {StatFile("train")}
    /\ stages' = Append(stages, "train_stat")
    /\ pc' = "plda"
    /\ UNCHANGED <<err, fs, loaders, accVars, plda, enrol_obj, test_obj,
                   ndx_obj, scores_plda, gt_file, eerVars, yielded, missed,
                   writes, calls>>

\* one iteration of "for wav, spk_id in t"
TrainBatch ==
    /\ pc = "train_loop"
    /\ \E batch \in loaders["train"] :
         LET xv == Squeeze1(compute_embeddings(batch))
         IN  /\ CanConcatenate(embeddings, xv)
             /\ modelset' =
                   modelset \o [k \in 1..Len(batch) |-> SpkLabel(batch[k])]
             /\ segset' = segset \o batch
             /\ embeddings' = Concatenate(embeddings, xv)
             /\ loaders' = [loaders EXCEPT !["train"] = @ \ {batch}]
             /\ yielded' = [yielded EXCEPT !["train"] = @ \o batch]
             /\ calls' = [calls EXCEPT !["train"] = @ + 1]
    /\ UNCHANGED <<pc, err, fs, objVars, gt_file, eerVars, missed, loaded,
                   writes, stages>>

\* the loader is exhausted: the stat object is built and saved
TrainBuild ==
    /\ pc = "train_loop"
    /\ loaders["train"] = {}
    /\ embeddings_stat' = StatObject(modelset, segset, embeddings)
    /\ embeddings' = None
    /\ fs' = [fs EXCEPT ![StatFile("train")] =
                            StatObject(modelset, segset, embeddings)]
    /\ writes' = [writes EXCEPT ![StatFile("train")] = @ + 1]
    /\ stages' = Append(stages, "train_stat")
    /\ pc' = "plda"
    /\ UNCHANGED <<err, loaders, modelset, segset, plda, enrol_obj, test_obj,
                   ndx_obj, scores_plda, gt_file, eerVars, yielded, missed,
                   loaded, calls>>

----------------------------------------------------------------------------
(* main: PLDA training *)

\* the argument of params["compute_plda"].plda(...)
TrainingInput == embeddings_stat

PLDATrain ==
    /\ pc = "plda"
    /\ SufficientTrainingData(TrainingInput)
    /\ plda' = [trained_on |-> TrainingInput]
    /\ stages' = Append(stages, "plda")
    /\ pc' = "enrol_check"
    /\ UNCHANGED <<err, fs, loaders, accVars, embeddings_stat, enrol_obj,
                   test_obj, ndx_obj, scores_plda, gt_file, eerVars, yielded,
                   missed, loaded, writes, calls>>

PLDATrainError ==
    /\ pc = "plda"
    /\ ~SufficientTrainingData(TrainingInput)
    /\ err' = "InsufficientTrainingDataError"
    /\ pc' = "error"
    /\ UNCHANGED <<fs, loaders, accVars, objVars, gt_file, eerVars, yielded,
                   missed, loaded, writes, calls, stages>>

----------------------------------------------------------------------------
(* emb_computation_loop(split, set_loader, stat_file), split enrol or test *)

CheckPc(split) == IF split = "enrol" THEN "enrol_check" ELSE "test_check"
LoopPc(split) == IF split = "enrol" THEN "enrol_loop" ELSE "test_loop"

AfterPcSkipsTest(split) == "ndx_check"

\* where main continues after the call
AfterPc(split) == IF split = "enrol" THEN "test_check" ELSE "ndx_check"

StageOf(split) == IF split = "enrol" THEN "enrol_stat" ELSE "test_stat"

\* "if not os.path.isfile(stat_file)" taken: the accumulators are created
EmbMiss(split) ==
    /\ pc = CheckPc(split)
    /\ fs[StatFile(split)] = NoFile
    /\ missed' = missed \cup {StatFile(split)}
    /\ embeddings' = EmptyArray
    /\ modelset' = <<>>
    /\ segset' = <<>>
    /\ pc' = LoopPc(split)
    /\ UNCHANGED <<err, fs, loaders, objVars, gt_file, eerVars, yielded,
                   loaded, writes, calls, stages>>

\* else: the saved stat object is unpickled and returned
EmbLoad(split) ==
    /\ pc = CheckPc(split)
    /\ fs[StatFile(split)] # NoFile
    /\ IF split = "enrol"
       THEN enrol_obj' = fs[StatFile(split)] /\ UNCHANGED test_obj
       ELSE test_obj' = fs[StatFile(split)] /\ UNCHANGED enrol_obj
    /\ loaded' = loaded \cup {StatFile(split)}
    /\ stages' = Append(stages, StageOf(split))
    /\ pc' = AfterPc(split)
    /\ UNCHANGED <<err, fs, loaders, accVars, embeddings_stat, plda, ndx_obj,
                   scores_plda, gt_file, eerVars, yielded, missed, writes,
                   calls>>

\* one iteration of "for wav in t" that reaches its end
EmbBatch(split) ==
    /\ pc = LoopPc(split)
    /\ \E batch \in loaders[split] :
         LET xv == Squeeze(compute_embeddings(batch))
         IN  /\ CanConcatenate(embeddings, xv)
             /\ modelset' = modelset \o batch
             /\ segset' = segset \o batch
             /\ embeddings' = Concatenate(embeddings, xv)
             /\ loaders' = [loaders EXCEPT ![split] = @ \ {batch}]
             /\ yielded' = [yielded EXCEPT ![split] = @ \o batch]
             /\ calls' = [calls EXCEPT ![split] = @ + 1]
    /\ UNCHANGED <<pc, err, fs, objVars, gt_file, eerVars, missed, loaded,
                   writes, stages>>

\* the iteration ends in the ValueError of numpy.concatenate
EmbBatchError(split) ==
    /\ pc = LoopPc(split)
    /\ \E batch \in loaders[split] :
         LET xv == Squeeze(compute_embeddings(batch))
         IN  /\ ~CanConcatenate(embeddings, xv)
             /\ modelset' = modelset \o batch
             /\ segset' = segset \o batch
             /\ loaders' = [loaders EXCEPT ![split] = @ \ {batch}]
             /\ yielded' = [yielded EXCEPT ![split] = @ \o batch]
             /\ calls' = [calls EXCEPT ![split] = @ + 1]
    /\ err' = "ValueError"
    /\ pc' = "error"
    /\ UNCHANGED <<fs, embeddings, objVars, gt_file, eerVars, missed, loaded,
                   writes, stages>>

\* the loader is exhausted: the stat object is built, saved and returned
EmbBuild(split) ==
    /\ pc = LoopPc(split)
    /\ loaders[split] = {}
    /\ IF split = "enrol"
       THEN /\ enrol_obj' = StatObject(modelset, segset, embeddings)
            /\ UNCHANGED test_obj
       ELSE /\ test_obj' = StatObject(modelset, segset, embeddings)
            /\ UNCHANGED enrol_obj
    /\ fs' = [fs EXCEPT ![StatFile(split)] =
                            StatObject(modelset, segset, embeddings)]
    /\ writes' = [writes EXCEPT ![StatFile(split)] = @ + 1]
    /\ stages' = Append(stages, StageOf(split))
    /\ pc' = AfterPc(split)
    /\ UNCHANGED <<err, loaders, accVars, embeddings_stat, plda, ndx_obj,
                   scores_plda, gt_file, eerVars, yielded, missed, loaded,
                   calls>>

----------------------------------------------------------------------------
(* main: Ndx, scoring *)

NdxArgsSwapped == <<test_obj.modelset, enrol_obj.modelset>>

\* models = enrol_obj.modelset; testsegs = test_obj.modelset
NdxArgs == <<enrol_obj.modelset, test_obj.modelset>>

\* "if not os.path.isfile(ndx_file)" taken: the Ndx is built and saved
NdxBuild ==
    /\ pc = "ndx_check"
    /\ fs[NdxFile] = NoFile
    /\ missed' = missed \cup {NdxFile}
    /\ ndx_obj' = Ndx(NdxArgs[1], NdxArgs[2])
    /\ fs' = [fs EXCEPT ![NdxFile] = Ndx(NdxArgs[1], NdxArgs[2])]
    /\ writes' = [writes EXCEPT ![NdxFile] = @ + 1]
    /\ stages' = Append(stages, "ndx")
    /\ pc' = "score"
    /\ UNCHANGED <<err, loaders, accVars, embeddings_stat, plda, enrol_obj,
                   test_obj, scores_plda, gt_file, eerVars, yielded, loaded,
                   calls>>

\* else: the saved Ndx is unpickled
NdxLoad ==
    /\ pc = "ndx_check"
    /\ fs[NdxFile] # NoFile
    /\ ndx_obj' = fs[NdxFile]
    /\ loaded' = loaded \cup {NdxFile}
    /\ stages' = Append(stages, "ndx")
    /\ pc' = "score"
    /\ UNCHANGED <<err, fs, loaders, accVars, embeddings_stat, plda,
                   enrol_obj, test_obj, scores_plda, gt_file, eerVars,
                   yielded, missed, writes, calls>>

\* scores_plda = fast_PLDA_scoring(...), the del statements, compute_EER called
Score ==
    /\ pc = "score"
    /\ Scorable(enrol_obj, test_obj, ndx_obj)
    /\ scores_plda' = fast_PLDA_scoring(enrol_obj, test_obj, ndx_obj, plda)
    /\ enrol_obj' = None
    /\ test_obj' = None
    /\ embeddings_stat' = None
    /\ stages' = Append(stages, "score")
    /\ pc' = "eer_start"
    /\ UNCHANGED <<err, fs, loaders, accVars, plda, ndx_obj, gt_file,
                   eerVars, yielded, missed, loaded, writes, calls>>

\* the Ndx names a model or segment the stat objects do not hold
ScoreError ==
    /\ pc = "score"
    /\ ~Scorable(enrol_obj, test_obj, ndx_obj)
    /\ err' = "ScoringError"
    /\ pc' = "error"
    /\ UNCHANGED <<fs, loaders, accVars, objVars, gt_file, eerVars, yielded,
                   missed, loaded, writes, calls, stages>>

----------------------------------------------------------------------------
(* The pipeline *)

\* what an earlier run on other data left in save_folder
OldIds == SplitIds("x", 2)
OldNdx == Ndx(OldIds, OldIds)

CachedTrain == {NoFile, TrainStat(TrainIds), TrainStat(<<TrainIds[1]>>)}
CachedEnrol == {NoFile, LoopStat(EnrolIds), LoopStat(OldIds)}
CachedTest == {NoFile, LoopStat(TestIds), LoopStat(OldIds)}
CachedNdx == {NoFile, Ndx(EnrolIds, TestIds), OldNdx}

Wav(id) == id \o <<".", "w">>

TrialFiles ==
    {<<Line(<<"1">>, Wav(EnrolIds[1]), Wav(TestIds[1])),
       Line(<<"0">>, Wav(EnrolIds[2]), Wav(TestIds[1]))>>,
     <<Line(<<"1">>, Wav(EnrolIds[1]), Wav(TestIds[1]))>>}

Init ==
    /\ pc = "train_check"
    /\ err = "none"
    /\ \E ctr \in CachedTrain : \E cen \in CachedEnrol :
       \E cte \in CachedTest : \E cnd \in CachedNdx :
           fs = [f \in Files |->
                   CASE f = StatFile("train") -> ctr
                     [] f = StatFile("enrol") -> cen
                     [] f = StatFile("test") -> cte
                     [] f = NdxFile -> cnd]
    /\ \E btr \in 1..MaxBatchSize : \E ben \in 1..MaxBatchSize :
       \E bte \in 1..MaxBatchSize :
           loaders = [s \in Splits |->
                        CASE s = "train" -> Batches(TrainIds, btr)
                          [] s = "enrol" -> Batches(EnrolIds, ben)
                          [] s = "test" -> Batches(TestIds, bte)]
    /\ modelset = <<>>
    /\ segset = <<>>
    /\ embeddings = EmptyArray
    /\ embeddings_stat = None
    /\ plda = None
    /\ enrol_obj = None
    /\ test_obj = None
    /\ ndx_obj = None
    /\ scores_plda = None
    /\ gt_file \in TrialFiles
    /\ ln = 0
    /\ lab = None
    /\ enrol_id = None
    /\ test_id = None
    /\ ids = <<>>
    /\ labels = <<>>
    /\ positive_scores = <<>>
    /\ negative_scores = <<>>
    /\ eer = None
    /\ yielded = [s \in Splits |-> <<>>]
    /\ missed = {}
    /\ loaded = {}
    /\ writes = [f \in Files |-> 0]
    /\ calls = [s \in Splits |-> 0]
    /\ stages = <<>>

Next ==
    \/ TrainMiss
    \/ TrainLoad
    \/ TrainBatch
    \/ TrainBuild
    \/ PLDATrain
    \/ PLDATrainError
    \/ \E split \in {"enrol", "test"} : EmbMiss(split)
    \/ \E split \in {"enrol", "test"} : EmbLoad(split)
    \/ \E split \in {"enrol", "test"} : EmbBatch(split)
    \/ \E split \in {"enrol", "test"} : EmbBatchError(split)
    \/ \E split \in {"enrol", "test"} : EmbBuild(split)
    \/ NdxBuild
    \/ NdxLoad
    \/ Score
    \/ ScoreError
    \/ EERStart
    \/ EERLine
    \/ EERLineError
    \/ EERFinal
    \/ EERFinalError

Spec == Init /\ [][Next]_vars

----------------------------------------------------------------------------
(* Properties of compute_EER *)

Present(arr, x) == \E k \in 1..Len(arr) : arr[k] = x

\* the file ref of field k of a line, as written in the file
RawRef(line, k) == RStrip(Split(line, " ")[k + 1])

RECURSIVE BeforeFirstDot(_)
BeforeFirstDot(s) ==
    IF s = <<>> \/ Head(s) = "." THEN <<>>
    ELSE <<Head(s)>> \o BeforeFirstDot(Tail(s))

RECURSIVE AfterLastSlash(_)
AfterLastSlash(s) ==
    IF s = <<>> \/ s[Len(s)] = "/" THEN <<>>
    ELSE Append(AfterLastSlash(SubSeq(s, 1, Len(s) - 1)), s[Len(s)])

RECURSIVE WithoutExtension(_)
WithoutExtension(s) ==
    IF \A k \in 1..Len(s) : s[k] # "." THEN s
    ELSE IF s[Len(s)] = "." THEN SubSeq(s, 1, Len(s) - 1)
    ELSE WithoutExtension(SubSeq(s, 1, Len(s) - 1))

\* the bare utterance id of a file ref: no directory part, no extension
BareId(ref) == WithoutExtension(AfterLastSlash(ref))

\* the ids the code reads in line k of the trial file
LineMissesId(k) ==
    \/ ~Present(scores_plda.modelset, BeforeFirstDot(RawRef(gt_file[k], 1)))
    \/ ~Present(scores_plda.segset, BeforeFirstDot(RawRef(gt_file[k], 2)))

\* C1: a trial line whose enrol id is not in scores_plda.modelset, or whose
\* test id is not in scores_plda.segset, ends the call in an error with no
\* EER returned: it is the last line read (never skipped) and it added
\* nothing to ids, labels, positive_scores or negative_scores.
C1_MissingIdEndsInError ==
    \A k \in 1..ln :
        LineMissesId(k) =>
            /\ pc = "error"
            /\ err = "IndexError"
            /\ eer = None
            /\ k = ln
            /\ Len(positive_scores) + Len(negative_scores) = k - 1
            /\ Len(ids) = k - 1
            /\ Len(labels) = k - 1

C1_Witness ==
    /\ pc = "error"
    /\ err = "IndexError"
    /\ ln = 2
    /\ LineMissesId(2)
    /\ Len(positive_scores) + Len(negative_scores) = 1

\* C2: once every trial line has been read, an empty positive score set or
\* an empty negative score set (an empty trial file included) ends
\* compute_EER in InsufficientTrialsError, and no EER value is returned.
C2_EmptySetFails ==
    /\ (/\ pc \in {"done", "error"}
        /\ err # "IndexError"
        /\ positive_scores = <<>> \/ negative_scores = <<>>)
       => /\ pc = "error"
          /\ err = "InsufficientTrialsError"
          /\ eer = None
    /\ eer # None => positive_scores # <<>> /\ negative_scores # <<>>

C2_Witness ==
    /\ pc = "error"
    /\ err = "InsufficientTrialsError"
    /\ ln = Len(gt_file)
    /\ positive_scores # <<>>
    /\ negative_scores = <<>>

CountOf(seq, v) == Cardinality({k \in 1..Len(seq) : seq[k] = v})

\* the number of lines processed to their end
Processed == IF err = "IndexError" THEN ln - 1 ELSE ln

\* C9: every resolved trial line adds its score to positive_scores exactly
\* when its label is 1 and to negative_scores exactly when its label is 0;
\* after n processed lines len(positive_scores) + len(negative_scores) =
\* len(labels) = len(ids) = n; a label other than 0 or 1 is not a non-match.
C9_Claim ==
    /\ Len(positive_scores) + Len(negative_scores) = Processed
    /\ Len(labels) = Processed
    /\ Len(ids) = Processed
    /\ Len(positive_scores) = CountOf(labels, 1)
    /\ Len(negative_scores) = CountOf(labels, 0)

\* the part of C9 the code keeps: the counts, and positives are the label 1
C9_Counts ==
    /\ Len(positive_scores) + Len(negative_scores) = Processed
    /\ Len(labels) = Processed
    /\ Len(ids) = Processed
    /\ Len(positive_scores) = CountOf(labels, 1)

MinOf(S) == CHOOSE k \in S : \A m \in S : k <= m

\* the score the last processed line appended
LastScore ==
    IF lab = 1
    THEN positive_scores[Len(positive_scores)]
    ELSE negative_scores[Len(negative_scores)]

\* C10: an id that occurs at several positions of modelset or segset raises
\* no error; the score read is the one at the lowest position of the enrol
\* id in modelset and the lowest position of the test id in segset.
C10_FirstOccurrence ==
    /\ err = "IndexError" =>
          \/ ~Present(scores_plda.modelset, enrol_id)
          \/ ~Present(scores_plda.segset, test_id)
    /\ (ln > 0 /\ err # "IndexError") =>
          LET i == MinOf({k \in 1..Len(scores_plda.modelset) :
                             scores_plda.modelset[k] = enrol_id})
              j == MinOf({k \in 1..Len(scores_plda.segset) :
                             scores_plda.segset[k] = test_id})
          IN  /\ scores_plda.modelset[i] = enrol_id
              /\ scores_plda.segset[j] = test_id
              /\ LastScore = scores_plda.scoremat[i][j]

C10_Witness ==
    /\ ln > 0
    /\ err = "none"
    /\ Cardinality({k \in 1..Len(scores_plda.modelset) :
                       scores_plda.modelset[k] = enrol_id}) > 1
    /\ Cardinality({k \in 1..Len(scores_plda.segset) :
                       scores_plda.segset[k] = test_id}) > 1

\* C6 as claimed: the ids looked up are the bare utterance ids of the two
\* file refs, directory part and extension stripped.
C6_Claim ==
    ln \in 1..Len(gt_file) =>
        /\ enrol_id = BareId(RawRef(gt_file[ln], 1))
        /\ test_id = BareId(RawRef(gt_file[ln], 2))

\* C6: the ids looked up are the two file refs cut at their first ".": the
\* directory part is kept, and what follows the first dot is dropped.
C6_CutAtFirstDot ==
    ln \in 1..Len(gt_file) =>
        /\ enrol_id = BeforeFirstDot(RawRef(gt_file[ln], 1))
        /\ test_id = BeforeFirstDot(RawRef(gt_file[ln], 2))

C6_Witness ==
    /\ ln = 1
    /\ err = "none"
    /\ RawRef(gt_file[1], 1) = <<"a", "/", "a", ".", "a">>
    /\ enrol_id = <<"a", "/", "a">>

----------------------------------------------------------------------------
(* Properties of the pipeline *)

Ended == pc \in {"done", "error"}

\* the object main holds for a cached artifact, None when not yet produced
HeldObject(f) ==
    CASE f = StatFile("train") -> embeddings_stat
      [] f = StatFile("enrol") -> enrol_obj
      [] f = StatFile("test") -> test_obj
      [] f = NdxFile -> ndx_obj

SplitOfFile(f) ==
    CASE f = StatFile("train") -> "train"
      [] f = StatFile("enrol") -> "enrol"
      [] f = StatFile("test") -> "test"

\* the part of C3 that is the cache check itself: an artifact is either found
\* missing or loaded, never both; a loaded file is not rewritten, its split's
\* extractor is not called, and the object is the file's content as it is;
\* a file is saved at most once and only after it was found missing.
C3_CacheDiscipline ==
    \A f \in Files :
        /\ ~(f \in missed /\ f \in loaded)
        /\ writes[f] <= 1
        /\ writes[f] = 1 => f \in missed /\ fs[f] # NoFile
        /\ f \in loaded =>
              /\ writes[f] = 0
              /\ f # NdxFile => calls[SplitOfFile(f)] = 0
              /\ pc \notin {"eer_start", "eer_loop", "done", "error"} =>
                    HeldObject(f) = fs[f]
        /\ (f # NdxFile /\ calls[SplitOfFile(f)] > 0) => f \in missed

\* C3: for each cached artifact the recomputation happens exactly when the
\* file is missing at its check: a missing file is no error and leads to a
\* recompute followed by a save of that file; an existing file is loaded as
\* it is, with no extractor call for its split and no rewrite.
C3_Claim ==
    /\ C3_CacheDiscipline
    /\ \A f \in Files : (Ended /\ f \in missed) => writes[f] = 1

\* the split whose emb_computation_loop is running or has just failed
LoopSplit ==
    IF pc = "enrol_loop" THEN "enrol"
    ELSE IF pc = "test_loop" THEN "test"
    ELSE IF StatFile("test") \in missed THEN "test" ELSE "enrol"

InLoop == pc \in {"enrol_loop", "test_loop"} \/ err = "ValueError"

Rows(a) == a.shape[1]

\* C4: on a cache miss emb_computation_loop keeps one record per utterance
\* id the loader yielded: after every batch modelset, segset and the rows of
\* embeddings have the same length, the number of ids yielded; record i has
\* modelset[i] = segset[i] = the i-th id yielded and the embedding of that
\* utterance; and the call ends with the stat object of these records.
C4_Claim ==
    /\ InLoop =>
          /\ Len(modelset) = Len(yielded[LoopSplit])
          /\ Len(segset) = Len(yielded[LoopSplit])
          /\ Rows(embeddings) = Len(yielded[LoopSplit])
          /\ \A i \in 1..Len(yielded[LoopSplit]) :
                /\ modelset[i] = yielded[LoopSplit][i]
                /\ segset[i] = yielded[LoopSplit][i]
                /\ embeddings.data[i] = <<"xv", yielded[LoopSplit][i]>>
    /\ \A split \in {"enrol", "test"} :
          (Ended /\ StatFile(split) \in missed) =>
              /\ fs[StatFile(split)] # NoFile
              /\ fs[StatFile(split)].segset = yielded[split]
              /\ fs[StatFile(split)].modelset = yielded[split]

\* what C4 says of the stat objects that do get built
C4_BuiltObjects ==
    \A split \in {"enrol", "test"} :
        writes[StatFile(split)] = 1 =>
            LET obj == fs[StatFile(split)]
            IN  /\ obj.segset = yielded[split]
                /\ obj.modelset = yielded[split]
                /\ Len(obj.stat1) = Len(yielded[split])
                /\ \A i \in 1..Len(obj.stat1) :
                       obj.stat1[i] = <<"xv", yielded[split][i]>>

\* the (id, label, vector) triples a stat object holds
Records(obj) ==
    {<<obj.segset[i], obj.modelset[i], obj.stat1[i]>> :
        i \in 1..Len(obj.segset)}

\* the object a split's loop builds when the whole split arrives in order
InOrder(split) ==
    CASE split = "train" -> TrainStat(TrainIds)
      [] split = "enrol" -> LoopStat(EnrolIds)
      [] split = "test" -> LoopStat(TestIds)

\* C5: whatever the order in which the mini-batches of a split arrive, the
\* stat object built maps each utterance id to the same label and the same
\* embedding vector as it does when they arrive in dataset order, one record
\* per id; only the order of the records may differ.
C5_OrderIndependent ==
    \A split \in Splits :
        writes[StatFile(split)] = 1 =>
            /\ Records(fs[StatFile(split)]) = Records(InOrder(split))
            /\ Len(fs[StatFile(split)].segset) = Len(InOrder(split).segset)
            /\ Len(fs[StatFile(split)].modelset) = Len(InOrder(split).segset)
            /\ Len(fs[StatFile(split)].stat1) = Len(InOrder(split).segset)

C5_Witness ==
    /\ writes[StatFile("train")] = 1
    /\ writes[StatFile("enrol")] = 1
    /\ fs[StatFile("train")].segset # TrainIds
    /\ fs[StatFile("enrol")].segset # EnrolIds
    /\ calls["enrol"] > 1

\* every model / segment of an Ndx has a label in the enrol / test stat object
NdxMatches(enrol, test, ndx) ==
    /\ \A k \in 1..Len(ndx.models) :
           \E m \in 1..Len(enrol.modelset) : enrol.modelset[m] = ndx.models[k]
    /\ \A k \in 1..Len(ndx.segments) :
           \E m \in 1..Len(test.modelset) : test.modelset[m] = ndx.segments[k]

\* C7 as claimed: when fast_PLDA_scoring is called, every model of the Ndx
\* has a label in the enrol stat object and every segment one in the test
\* stat object, whichever of the cache files exist.
C7_Claim == pc = "score" => NdxMatches(enrol_obj, test_obj, ndx_obj)

\* C7: the same, for an Ndx built in this run (ndx.pkl missing at its
\* check), whether the enrol and test stat objects were loaded or recomputed.
C7_BuiltNdxMatches ==
    (pc = "score" /\ NdxFile \in missed) =>
        NdxMatches(enrol_obj, test_obj, ndx_obj)

C7_Witness ==
    /\ pc = "score"
    /\ NdxFile \in missed
    /\ StatFile("enrol") \in loaded
    /\ StatFile("test") \in missed
    /\ enrol_obj.modelset # test_obj.modelset

StageOrder ==
    <<"train_stat", "plda", "enrol_stat", "test_stat", "ndx", "score", "eer">>

\* C8: the stages run in the order train stat object, PLDA training, enrol
\* stat object, test stat object, Ndx, scoring, EER; PLDA is trained on the
\* train stat object, before any enrol or test object exists; scoring starts
\* only with the trained PLDA, both stat objects and the Ndx; the EER is
\* computed from the scores that scoring produced.
C8_StageOrder ==
    /\ Len(stages) <= Len(StageOrder)
    /\ stages = SubSeq(StageOrder, 1, Len(stages))
    /\ plda # None =>
          /\ plda.trained_on = fs[StatFile("train")]
          /\ Len(stages) >= 2
    /\ plda = None =>
          enrol_obj = None /\ test_obj = None /\ ndx_obj = None
    /\ pc = "ndx_check" =>
          /\ plda # None
          /\ enrol_obj # None
          /\ test_obj # None
          /\ ndx_obj = None
    /\ pc = "score" =>
          /\ plda # None
          /\ enrol_obj # None
          /\ test_obj # None
          /\ ndx_obj # None
          /\ scores_plda = None
    /\ scores_plda # None => Len(stages) >= 6
    /\ pc \in {"eer_start", "eer_loop"} => scores_plda # None
    /\ eer # None =>
          /\ scores_plda # None
          /\ \A k \in 1..Len(eer.positive) :
                \E i \in 1..Len(scores_plda.modelset) :
                \E j \in 1..Len(scores_plda.segset) :
                    eer.positive[k] = scores_plda.scoremat[i][j]
          /\ \A k \in 1..Len(eer.negative) :
                \E i \in 1..Len(scores_plda.modelset) :
                \E j \in 1..Len(scores_plda.segset) :
                    eer.negative[k] = scores_plda.scoremat[i][j]

C8_Witness ==
    /\ pc = "done"
    /\ eer # None
    /\ stages = StageOrder
    /\ missed = Files

====
